---- MODULE Spec2Model ----
(***************************************************************************)
(* rustoji: one run of main() in src/main.rs, and the runs that follow it. *)
(* A string is a sequence of characters; a character is a one-element     *)
(* TLA+ string ("g", " ", ".", ...).  A few multi-byte pieces that the     *)
(* program never looks inside are kept as one character: the expanded      *)
(* asset directory, "file://", "icon", the NUL and US control bytes.       *)
(*                                                                         *)
(* A run starts where main() has expanded its paths, made sure of the data *)
(* folder and fetched emojis.json if it was missing (lines 20-30); the     *)
(* three inputs of the run are the contents of history.json, of            *)
(* emojis.json and of the asset directory.  Both JSON files parse; the     *)
(* failures kept are those of the subprocesses (picker, wl-copy,           *)
(* notify-send), of reading a PNG file and of creating history.json.       *)
(* The picker takes no part in the choice between fuzzel and bemenu: the   *)
(* two differ in their command-line flags only (lines 201-203).            *)
(***************************************************************************)
EXTENDS Integers, Sequences, FiniteSets, TLC

\* ------------------------------------------------------------------ bounds
MaxHist == 2    \* entries of history.json when the first run starts
MaxCount == 2   \* largest usage count in history.json when the first run starts
MaxCat == 2     \* entries of emojis.json
MaxDir == 2     \* entries of the PNG asset directory

\* -------------------------------------------------------------- characters
SP == " "
LF == "\n"
NUL == "NUL"
US == "US"
ICON == "icon"
InvalidByte == "0xFF"
ReplacementChar == "U+FFFD"

Whitespace == {SP, LF}

DotPng == <<".", "p", "n", "g">>
Png == <<"p", "n", "g">>
FileScheme == <<"file://">>
expanded_png_emojis_path == <<"/home/u/assets/emojis">>

\* ------------------------------------------------------- string functions
\* str::ends_with
ends_with(s, suf) ==
    /\ Len(s) >= Len(suf)
    /\ SubSeq(s, Len(s) - Len(suf) + 1, Len(s)) = suf

\* slice::contains / Vec::contains
contains(seq, x) == \E i \in 1..Len(seq) : seq[i] = x

\* str::split_once(' ') on the first occurrence of the delimiter
split_once_last(s, c) ==
    IF \E i \in 1..Len(s) : s[i] = c
    THEN LET i == CHOOSE j \in 1..Len(s) :
                     /\ s[j] = c
                     /\ \A k \in (j + 1)..Len(s) : s[k] # c
         IN [found |-> TRUE, before |-> SubSeq(s, 1, i - 1),
             after |-> SubSeq(s, i + 1, Len(s))]
    ELSE [found |-> FALSE, before |-> <<>>, after |-> <<>>]

split_once(s, c) ==
    IF \E i \in 1..Len(s) : s[i] = c
    THEN LET i == CHOOSE j \in 1..Len(s) :
                     /\ s[j] = c
                     /\ \A k \in 1..(j - 1) : s[k] # c
         IN [found |-> TRUE, before |-> SubSeq(s, 1, i - 1),
             after |-> SubSeq(s, i + 1, Len(s))]
    ELSE [found |-> FALSE, before |-> <<>>, after |-> <<>>]

RECURSIVE trim_start(_)
trim_start(s) ==
    IF s = <<>> THEN s
    ELSE IF Head(s) \in Whitespace THEN trim_start(Tail(s)) ELSE s

RECURSIVE trim_end(_)
trim_end(s) ==
    IF s = <<>> THEN s
    ELSE IF s[Len(s)] \in Whitespace THEN trim_end(SubSeq(s, 1, Len(s) - 1)) ELSE s

\* str::trim, with a variant that strips blanks but not line ends
trim_blanks_only(s) ==
    LET first == IF \E i \in 1..Len(s) : s[i] # SP
                 THEN CHOOSE i \in 1..Len(s) :
                          s[i] # SP /\ \A k \in 1..(i - 1) : s[k] = SP
                 ELSE Len(s) + 1
        last == IF \E i \in 1..Len(s) : s[i] # SP
                THEN CHOOSE i \in 1..Len(s) :
                         s[i] # SP /\ \A k \in (i + 1)..Len(s) : s[k] = SP
                ELSE Len(s)
    IN SubSeq(s, first, last)

trim(s) == trim_end(trim_start(s))

\* String::from_utf8_lossy: invalid bytes become U+FFFD, the rest is kept
from_utf8_lossy(bytes) ==
    [i \in 1..Len(bytes) |-> IF bytes[i] = InvalidByte THEN ReplacementChar ELSE bytes[i]]

\* Path::join for a relative component
join(dir, name) == dir \o <<"/">> \o name

\* Path::file_name of a path made by join(expanded_png_emojis_path, name)
file_name(path) == SubSeq(path, Len(expanded_png_emojis_path) + 2, Len(path))

\* Path::extension: the part after the last dot of the file name; none when
\* there is no dot or the only dot is the first character
extension(name) ==
    IF \E i \in 2..Len(name) : name[i] = "."
    THEN LET i == CHOOSE j \in 2..Len(name) :
                     /\ name[j] = "."
                     /\ \A k \in (j + 1)..Len(name) : name[k] # "."
         IN [some |-> TRUE, ext |-> SubSeq(name, i + 1, Len(name))]
    ELSE [some |-> FALSE, ext |-> <<>>]


\* ------------------------------------------------------------ collections
EmptyMap == [k \in {} |-> 0]

\* every enumeration order of a finite set (the iteration order of a HashMap,
\* the order in which read_dir yields entries)
Orders(S) ==
    {s \in [1..Cardinality(S) -> S] :
        \A a, b \in 1..Cardinality(S) : a # b => s[a] # s[b]}

\* Stable insertion of key x into a sequence already ordered by descending
\* count: x goes behind every key whose count is not smaller than its own.
insert_desc(sorted, x, h) ==
    LET n == Cardinality({j \in 1..Len(sorted) : h[sorted[j]] >= h[x]})
    IN SubSeq(sorted, 1, n) \o <<x>> \o SubSeq(sorted, n + 1, Len(sorted))

insert_asc(sorted, x, h) ==
    LET n == Cardinality({j \in 1..Len(sorted) : h[sorted[j]] <= h[x]})
    IN SubSeq(sorted, 1, n) \o <<x>> \o SubSeq(sorted, n + 1, Len(sorted))

RECURSIVE sort_by_count_asc(_, _)
sort_by_count_asc(iter, h) ==
    IF iter = <<>> THEN <<>>
    ELSE insert_asc(sort_by_count_asc(SubSeq(iter, 1, Len(iter) - 1), h),
                    iter[Len(iter)], h)

\* history.iter().collect(), sort_by(|a, b| b.1.cmp(a.1)) (a stable sort),
\* then the keys
RECURSIVE sort_by_count_desc(_, _)
sort_by_count_desc(iter, h) ==
    IF iter = <<>> THEN <<>>
    ELSE insert_desc(sort_by_count_desc(SubSeq(iter, 1, Len(iter) - 1), h),
                     iter[Len(iter)], h)

\* *history.entry(k).or_insert(0) += 1 (the counts are u32; those of the model
\* stay far below u32::MAX, so the sum is the plain one), with a variant that
\* starts a new key at 1 before adding
increment_from_one(h, k) ==
    IF k \in DOMAIN h
    THEN [h EXCEPT ![k] = @ + 1]
    ELSE [x \in DOMAIN h \cup {k} |-> IF x = k THEN 1 + 1 ELSE h[x]]

increment(h, k) ==
    IF k \in DOMAIN h
    THEN [h EXCEPT ![k] = @ + 1]
    ELSE [x \in DOMAIN h \cup {k} |-> IF x = k THEN 0 + 1 ELSE h[x]]

\* ------------------------------------------------------------ the inputs
GRIN == <<"g", "r", "i", "n">>
A_PNG == <<"a">> \o DotPng
B_PNG == <<"b">> \o DotPng
C_PNG == <<"c">> \o DotPng
D_PNG == <<"d">> \o DotPng
NOTES == <<"n", "o", "t", "e", "s">>

HistKeys == {GRIN, B_PNG}
CatKeys == {GRIN, A_PNG}
CatValues == {<<"G">>, <<"x", SP, "y">>}

DirEntries ==
    {[name |-> A_PNG, is_file |-> TRUE],
     [name |-> B_PNG, is_file |-> TRUE],
     [name |-> C_PNG, is_file |-> TRUE],
     [name |-> D_PNG, is_file |-> FALSE],
     [name |-> NOTES, is_file |-> TRUE]}

HistoryFiles ==
    UNION {[K -> 1..MaxCount] :
              K \in {S \in SUBSET HistKeys : Cardinality(S) <= MaxHist}}

EmojisFiles ==
    UNION {[K -> CatValues] :
              K \in {S \in SUBSET CatKeys : Cardinality(S) <= MaxCat}}

DirContents == {T \in SUBSET DirEntries : Cardinality(T) <= MaxDir}

\* what a user can make the picker print without choosing a candidate line
TypedOutputs ==
    {<<LF>>,
     <<"z", "z", LF>>,
     A_PNG \o <<SP, "b", LF>>}


\* ------------------------------------------------------------- the state
VARIABLES
    pc,                   \* where main() is
    outcome,              \* how the run ended: "ok", "io_error", "invalid_data", "panic"
    history_file,         \* contents of history.json
    emojis_file,          \* contents of emojis.json
    png_dir,              \* the asset directory: whether it exists, its entries
    history,              \* main: history
    loaded_history,       \* the value history had when it was loaded at line 32
    history_iter,         \* the order in which history.iter() yields the keys
    sorted_history,       \* main: sorted_history
    unicode_emojis,       \* main: unicode_emojis
    catalog_iter,         \* the order in which unicode_emojis yields its keys
    png_emojis,           \* main: png_emojis
    copy_png_emoji_path,  \* main: copy_png_emoji_path
    picker,               \* the picker subprocess: "none", "running", "exited"
    picker_stdin,         \* the lines written to the picker, in order
    picker_stdout,        \* what the picker printed
    i,                    \* index of the next element in the current write loop
    output,               \* main: output
    emoji,                \* main: emoji
    emoji_name,           \* main: emoji_name
    clipboard,            \* the wl-copy commands that were started
    status_code,          \* main: status_code ("none" before the copy)
    notifications,        \* the notify-send commands that were started
    history_writes        \* how often this run has rewritten history.json

vars ==
    <<pc, outcome, history_file, emojis_file, png_dir, history, loaded_history,
      history_iter, sorted_history, unicode_emojis, catalog_iter, png_emojis,
      copy_png_emoji_path, picker, picker_stdin, picker_stdout, i, output, emoji,
      emoji_name, clipboard, status_code, notifications, history_writes>>

files == <<history_file, emojis_file, png_dir>>
loaded == <<history, loaded_history, history_iter, sorted_history, unicode_emojis,
            catalog_iter, png_emojis, copy_png_emoji_path>>
picker_io == <<picker, picker_stdin, picker_stdout, i>>
selection == <<output, emoji, emoji_name>>
effects == <<clipboard, status_code, notifications, history_writes>>

\* the state of a run that has not started
Fresh ==
    /\ pc = "load_history"
    /\ outcome = "none"
    /\ history = EmptyMap
    /\ loaded_history = EmptyMap
    /\ history_iter = <<>>
    /\ sorted_history = <<>>
    /\ unicode_emojis = EmptyMap
    /\ catalog_iter = <<>>
    /\ png_emojis = <<>>
    /\ copy_png_emoji_path = TRUE
    /\ picker = "none"
    /\ picker_stdin = <<>>
    /\ picker_stdout = <<>>
    /\ i = 0
    /\ output = <<>>
    /\ emoji = <<>>
    /\ emoji_name = <<>>
    /\ clipboard = <<>>
    /\ status_code = "none"
    /\ notifications = <<>>
    /\ history_writes = 0

Init ==
    /\ history_file \in HistoryFiles
    /\ emojis_file \in EmojisFiles
    /\ png_dir \in {[exists |-> FALSE, entries |-> {}]}
                   \cup {[exists |-> TRUE, entries |-> d] : d \in DirContents}
    /\ Fresh

\* ------------------------------------------------------------ candidates
\* format!("{}\0icon\x1f{}", name, path)
icon_line(name, path) == name \o <<NUL, ICON, US>> \o path

\* format!("{} {}", value, name)
unicode_line(value, name) == value \o <<SP>> \o name

\* collect_png_emojis_and_filter, read_dir yielding the entries in the order
\* of listing
collect_png_emojis_and_filter(dir, listing, emojis_to_filter_out) ==
    IF ~dir.exists THEN <<>>
    ELSE LET kept == SelectSeq(listing,
                         LAMBDA e :
                             /\ ~contains(emojis_to_filter_out, e.name)
                             /\ e.is_file
                             /\ extension(e.name) = [some |-> TRUE, ext |-> Png])
         IN [n \in 1..Len(kept) |-> join(expanded_png_emojis_path, kept[n].name)]

\* unicode_emojis.into_iter().filter(|(key, _)| !sorted_history.contains(&key))
remaining_unicode ==
    SelectSeq(catalog_iter, LAMBDA k : ~contains(sorted_history, k))

\* the loop and index at which run_picker continues: the first loop, from
\* the given one on, that still has an element; "wait" when none has
pos_catalog(n) ==
    IF n <= Len(remaining_unicode) THEN <<"write_catalog", n>> ELSE <<"wait", 0>>
pos_png(n) ==
    IF n <= Len(png_emojis) THEN <<"write_png", n>> ELSE pos_catalog(1)
pos_history(n) ==
    IF n <= Len(sorted_history) THEN <<"write_history", n>> ELSE pos_png(1)

\* the text a picker shows and prints for a line: what precedes the NUL byte
displayed(line) ==
    IF \E n \in 1..Len(line) : line[n] = NUL
    THEN SubSeq(line, 1, (CHOOSE n \in 1..Len(line) :
                              line[n] = NUL /\ \A k \in 1..(n - 1) : line[k] # NUL) - 1)
    ELSE line


\* ---------------------------------------------------------------- main()
\* line 32-35: load history.json, rank its keys by descending count
LoadHistory ==
    /\ pc = "load_history"
    /\ \E order \in Orders(DOMAIN history_file) :
          /\ history_iter' = order
          /\ sorted_history' = sort_by_count_desc(order, history_file)
    /\ history' = history_file
    /\ loaded_history' = history_file
    /\ pc' = "load_catalog"
    /\ UNCHANGED <<outcome, files, unicode_emojis, catalog_iter, png_emojis,
                   copy_png_emoji_path, picker_io, selection, effects>>

\* line 37: load emojis.json
LoadCatalog ==
    /\ pc = "load_catalog"
    /\ unicode_emojis' = emojis_file
    /\ catalog_iter' \in Orders(DOMAIN emojis_file)
    /\ pc' = "collect_png"
    /\ UNCHANGED <<outcome, files, history, loaded_history, history_iter,
                   sorted_history, png_emojis, copy_png_emoji_path, picker_io,
                   selection, effects>>

\* line 38: scan the asset directory
CollectPngEmojis ==
    /\ pc = "collect_png"
    /\ \E listing \in Orders(png_dir.entries) :
          png_emojis' = collect_png_emojis_and_filter(png_dir, listing, sorted_history)
    /\ pc' = "parse_args"
    /\ UNCHANGED <<outcome, files, history, loaded_history, history_iter,
                   sorted_history, unicode_emojis, catalog_iter,
                   copy_png_emoji_path, picker_io, selection, effects>>

\* line 40: the second argument decides between path copy and byte copy
ParseArgs ==
    /\ pc = "parse_args"
    /\ copy_png_emoji_path' \in BOOLEAN
    /\ pc' = "spawn"
    /\ UNCHANGED <<outcome, files, history, loaded_history, history_iter,
                   sorted_history, unicode_emojis, catalog_iter, png_emojis,
                   picker_io, selection, effects>>

\* ----------------------------------------------------------- run_picker()
\* line 205-208: spawn the picker; a failure to spawn is returned
SpawnPicker ==
    /\ pc = "spawn"
    /\ \/ /\ picker' = "running"
          /\ pc' = pos_history(1)[1]
          /\ i' = pos_history(1)[2]
          /\ UNCHANGED outcome
       \/ /\ pc' = "done"
          /\ outcome' = "io_error"
          /\ UNCHANGED <<picker, i>>
    /\ UNCHANGED <<files, loaded, picker_stdin, picker_stdout, selection, effects>>

\* writeln!(stdin, ...)?: the line reaches the picker, or the pipe is broken
\* because the picker is gone and the error is returned
writeln(rec, next) ==
    IF picker = "exited"
    THEN /\ pc' = "done"
         /\ outcome' = "io_error"
         /\ UNCHANGED <<picker_stdin, i>>
    ELSE /\ picker_stdin' = Append(picker_stdin, rec)
         /\ pc' = next[1]
         /\ i' = next[2]
         /\ UNCHANGED outcome

\* line 211-219 with the lookup failure skipped instead of unwrapped
WriteHistoryLine_skip ==
    /\ pc = "write_history"
    /\ LET e == sorted_history[i] IN
          IF ends_with(e, DotPng)
          THEN writeln([section |-> "history", id |-> e,
                        line |-> icon_line(e, join(expanded_png_emojis_path, e))],
                       pos_history(i + 1))
          ELSE IF e \notin DOMAIN unicode_emojis
          THEN /\ pc' = pos_history(i + 1)[1]
               /\ i' = pos_history(i + 1)[2]
               /\ UNCHANGED <<outcome, picker_stdin>>
          ELSE writeln([section |-> "history", id |-> e,
                        line |-> unicode_line(unicode_emojis[e], e)],
                       pos_history(i + 1))
    /\ UNCHANGED <<files, loaded, picker, picker_stdout, selection, effects>>

\* line 211-219: one history candidate; unicode_emojis.get(..).unwrap()
\* panics when the identity is not in the catalog
WriteHistoryLine ==
    /\ pc = "write_history"
    /\ LET e == sorted_history[i] IN
          IF ends_with(e, DotPng)
          THEN writeln([section |-> "history", id |-> e,
                        line |-> icon_line(e, join(expanded_png_emojis_path, e))],
                       pos_history(i + 1))
          ELSE IF e \notin DOMAIN unicode_emojis
          THEN /\ pc' = "done"
               /\ outcome' = "panic"
               /\ UNCHANGED <<picker_stdin, i>>
          ELSE writeln([section |-> "history", id |-> e,
                        line |-> unicode_line(unicode_emojis[e], e)],
                       pos_history(i + 1))
    /\ UNCHANGED <<files, loaded, picker, picker_stdout, selection, effects>>

\* line 221-225: one PNG candidate found by the scan
WritePngLine ==
    /\ pc = "write_png"
    /\ LET path == png_emojis[i] IN
          writeln([section |-> "png", id |-> file_name(path),
                   line |-> icon_line(file_name(path), path)],
                  pos_png(i + 1))
    /\ UNCHANGED <<files, loaded, picker, picker_stdout, selection, effects>>

\* line 227-232: one catalog entry that is not in the history
WriteCatalogLine ==
    /\ pc = "write_catalog"
    /\ LET key == remaining_unicode[i] IN
          writeln([section |-> "catalog", id |-> key,
                   line |-> unicode_line(unicode_emojis[key], key)],
                  pos_catalog(i + 1))
    /\ UNCHANGED <<files, loaded, picker, picker_stdout, selection, effects>>

\* the picker ends without printing anything (closed, killed, crashed); this
\* can happen at any time after it was spawned
PickerCancel ==
    /\ picker = "running"
    /\ picker' = "exited"
    /\ picker_stdout' = <<>>
    /\ UNCHANGED <<pc, outcome, files, loaded, picker_stdin, i, selection, effects>>

\* the picker prints a selection and ends: one of the lines it was given, or
\* text the user typed.  It does so once it has read its input to the end,
\* that is while run_picker is in wait_with_output (line 235), which closes
\* the input channel before it waits.
PickerSelect ==
    /\ picker = "running"
    /\ pc = "wait"
    /\ picker' = "exited"
    /\ picker_stdout' \in
           TypedOutputs \cup
           {displayed(picker_stdin[n].line) \o <<LF>> : n \in 1..Len(picker_stdin)}
    /\ UNCHANGED <<pc, outcome, files, loaded, picker_stdin, i, selection, effects>>

\* line 235-237: wait for the picker to end, take its output, trim it
WaitWithOutput ==
    /\ pc = "wait"
    /\ picker = "exited"
    /\ output' = trim(from_utf8_lossy(picker_stdout))
    /\ pc' = "check_output"
    /\ UNCHANGED <<outcome, files, loaded, picker_io, emoji, emoji_name, effects>>


\* ------------------------------------------------------- main(), continued
\* line 50-52: no selection, the run ends successfully
EmptyOutput ==
    /\ pc = "check_output"
    /\ output = <<>>
    /\ pc' = "done"
    /\ outcome' = "ok"
    /\ UNCHANGED <<files, loaded, picker_io, selection, effects>>

\* line 54-66: the selection becomes (emoji, emoji_name)
ResolveSelection ==
    /\ pc = "check_output"
    /\ output # <<>>
    /\ IF ends_with(output, DotPng)
       THEN /\ emoji' = output
            /\ emoji_name' = output
            /\ pc' = "copy"
            /\ UNCHANGED outcome
       ELSE LET parts == split_once(output, SP) IN
            IF parts.found
            THEN /\ emoji' = parts.before
                 /\ emoji_name' = parts.after
                 /\ pc' = "copy"
                 /\ UNCHANGED outcome
            ELSE /\ pc' = "done"
                 /\ outcome' = "invalid_data"
                 /\ UNCHANGED <<emoji, emoji_name>>
    /\ UNCHANGED <<files, loaded, picker_io, output, effects>>

\* fs::File::open and read_to_end succeed on a regular file of the directory
readable(name) ==
    /\ png_dir.exists
    /\ \E e \in png_dir.entries : e.name = name /\ e.is_file

file_bytes(name) == <<"bytes of">> \o name

\* the wl-copy command copy_emoji_to_clipboard builds for an emoji (line 92-115)
wl_copy(e) ==
    IF ~ends_with(e, DotPng)
    THEN [mime |-> "text/plain", arg |-> e, stdin |-> <<>>]
    ELSE IF copy_png_emoji_path
    THEN [mime |-> "text/uri-list",
          arg |-> FileScheme \o join(expanded_png_emojis_path, e), stdin |-> <<>>]
    ELSE [mime |-> "image/png", arg |-> <<>>, stdin |-> file_bytes(e)]

\* line 68-69, 87-122: copy_emoji_to_clipboard.  The file is read before the
\* byte copy; the command may fail to start (the error is returned) or run
\* and exit with either status (the status is returned).
CopyEmojiToClipboard ==
    /\ pc = "copy"
    /\ IF ends_with(emoji, DotPng) /\ ~copy_png_emoji_path /\ ~readable(emoji)
       THEN /\ pc' = "done"
            /\ outcome' = "io_error"
            /\ UNCHANGED <<clipboard, status_code>>
       ELSE \/ /\ pc' = "done"
               /\ outcome' = "io_error"
               /\ UNCHANGED <<clipboard, status_code>>
            \/ /\ clipboard' = Append(clipboard, wl_copy(emoji))
               /\ status_code' \in {"success", "failure"}
               /\ pc' = "notify"
               /\ UNCHANGED outcome
    /\ UNCHANGED <<files, loaded, picker_io, selection, notifications, history_writes>>

\* line 70, 80-85: notify-send; status().unwrap() panics when it cannot start
Notify ==
    /\ pc = "notify"
    /\ \/ /\ notifications' = Append(notifications, <<"Copied: ", status_code>>)
          /\ pc' = "increment"
          /\ UNCHANGED outcome
       \/ /\ pc' = "done"
          /\ outcome' = "panic"
          /\ UNCHANGED notifications
    /\ UNCHANGED <<files, loaded, picker_io, selection, clipboard, status_code,
                   history_writes>>

\* line 72 with the count kept under the emoji instead of its name
IncrementHistory_emoji ==
    /\ pc = "increment"
    /\ history' = increment(history, emoji)
    /\ pc' = "persist"
    /\ UNCHANGED <<outcome, files, loaded_history, history_iter, sorted_history,
                   unicode_emojis, catalog_iter, png_emojis, copy_png_emoji_path,
                   picker_io, selection, effects>>

\* line 72: *history.entry(emoji_name).or_insert(0) += 1
IncrementHistory ==
    /\ pc = "increment"
    /\ history' = increment(history, emoji_name)
    /\ pc' = "persist"
    /\ UNCHANGED <<outcome, files, loaded_history, history_iter, sorted_history,
                   unicode_emojis, catalog_iter, png_emojis, copy_png_emoji_path,
                   picker_io, selection, effects>>

\* line 74-77: rewrite history.json; File::create may fail, and then the
\* error is returned and the file is as it was
PersistHistory ==
    /\ pc = "persist"
    /\ \/ /\ history_file' = history
          /\ history_writes' = history_writes + 1
          /\ outcome' = "ok"
       \/ /\ outcome' = "io_error"
          /\ UNCHANGED <<history_file, history_writes>>
    /\ pc' = "done"
    /\ UNCHANGED <<emojis_file, png_dir, loaded, picker_io, selection, clipboard,
                   status_code, notifications>>

\* the program is started again with the files as the last run left them
NextRun ==
    /\ pc = "done"
    /\ history_file \in HistoryFiles
    /\ pc' = "load_history"
    /\ outcome' = "none"
    /\ history' = EmptyMap
    /\ loaded_history' = EmptyMap
    /\ history_iter' = <<>>
    /\ sorted_history' = <<>>
    /\ unicode_emojis' = EmptyMap
    /\ catalog_iter' = <<>>
    /\ png_emojis' = <<>>
    /\ copy_png_emoji_path' = TRUE
    /\ picker' = "none"
    /\ picker_stdin' = <<>>
    /\ picker_stdout' = <<>>
    /\ i' = 0
    /\ output' = <<>>
    /\ emoji' = <<>>
    /\ emoji_name' = <<>>
    /\ clipboard' = <<>>
    /\ status_code' = "none"
    /\ notifications' = <<>>
    /\ history_writes' = 0
    /\ UNCHANGED files

Next ==
    \/ LoadHistory
    \/ LoadCatalog
    \/ CollectPngEmojis
    \/ ParseArgs
    \/ SpawnPicker
    \/ WriteHistoryLine
    \/ WritePngLine
    \/ WriteCatalogLine
    \/ PickerCancel
    \/ PickerSelect
    \/ WaitWithOutput
    \/ EmptyOutput
    \/ ResolveSelection
    \/ CopyEmojiToClipboard
    \/ Notify
    \/ IncrementHistory
    \/ PersistHistory
    \/ NextRun

Spec == Init /\ [][Next]_vars


\* ================================================================ claims
\* helpers of the statements below
Lines == 1..Len(picker_stdin)
SectionIds(sec) == {picker_stdin[n].id : n \in {m \in Lines : picker_stdin[m].section = sec}}
Pos(seq, x) == CHOOSE n \in 1..Len(seq) : seq[n] = x
SectionRank(sec) == CASE sec = "history" -> 1 [] sec = "png" -> 2 [] sec = "catalog" -> 3
AllWhitespace(s) == \A n \in 1..Len(s) : s[n] = SP \/ s[n] = LF
HasSpace(s) == \E n \in 1..Len(s) : s[n] = SP
\* run_picker has written its three sections and the run went on from there
EmissionComplete ==
    \/ pc \in {"wait", "check_output", "copy", "notify", "increment", "persist"}
    \/ pc = "done" /\ picker = "exited" /\ (output # <<>> \/ outcome = "ok")
\* the history mapping has an identity that is no PNG name and no catalog key
MissingCatalogEntry ==
    /\ pc # "load_history"
    /\ \E k \in DOMAIN loaded_history : ~ends_with(k, DotPng) /\ k \notin DOMAIN emojis_file
\* the identity the claims give a selection: the whole line when it ends in
\* .png, the text after the first space otherwise
IdentityOf(line) ==
    IF ends_with(line, DotPng) THEN line
    ELSE LET n == CHOOSE m \in 1..Len(line) :
                      line[m] = SP /\ \A k \in 1..(m - 1) : line[k] # SP
         IN SubSeq(line, n + 1, Len(line))
\* f is h with the count of id greater by one (1 when id was absent)
PlusOne(f, h, id) ==
    /\ DOMAIN f = DOMAIN h \cup {id}
    /\ \A k \in DOMAIN f :
          f[k] = (IF k \in DOMAIN h THEN h[k] ELSE 0) + (IF k = id THEN 1 ELSE 0)
\* the history mapping and its store are as they were loaded
HistoryUntouched ==
    /\ history = loaded_history
    /\ history_writes = 0
    /\ pc # "load_history" => history_file = loaded_history

\* C1: no identity occurs in more than one line written to the picker: the
\* history identities are absent from the PNG and the catalog section, and
\* these two sections share no identity.
C1_NoIdentityTwice ==
    \A a, b \in Lines : a # b => picker_stdin[a].id # picker_stdin[b].id

\* C1, the part the code keeps: no history identity is in the PNG or the
\* catalog section, and no section holds an identity twice.
C1_HistoryPrefixDedup ==
    \A a, b \in Lines :
        (a # b /\ picker_stdin[a].id = picker_stdin[b].id)
            => {picker_stdin[a].section, picker_stdin[b].section} = {"png", "catalog"}

\* C2: the clipboard command of an accepted selection is fixed by the kind the
\* Resolver gave it (PNG when the line ends in .png, Unicode otherwise) and by
\* the copy mode; a Unicode selection is copied as text/plain, its content the
\* text before the first space, and never by a PNG mechanism.
C2_MechanismByKind ==
    /\ Len(clipboard) <= 1
    /\ \A n \in 1..Len(clipboard) :
          IF ends_with(output, DotPng)
          THEN IF copy_png_emoji_path
               THEN /\ clipboard[n].mime = "text/uri-list"
                    /\ clipboard[n].arg =
                           FileScheme \o expanded_png_emojis_path \o <<"/">> \o output
               ELSE /\ clipboard[n].mime = "image/png"
                    /\ clipboard[n].stdin = file_bytes(output)
          ELSE /\ clipboard[n].mime = "text/plain"
               /\ clipboard[n].arg \o <<SP>> \o emoji_name = output
               /\ ~HasSpace(clipboard[n].arg)

\* C3: when the clipboard command did not finish successfully (it did not
\* start, or it exited with a failure status) no history count changes and the
\* store is not rewritten.
\* (Stated for the selections whose kind the Resolver and the Dispatcher agree
\* on, so that a violation does not rest on the case C2 is about.)
C3_MutatedOnlyAfterSuccess ==
    (status_code # "success" /\ (ends_with(emoji, DotPng) => ends_with(output, DotPng)))
        => HistoryUntouched

\* C4: when the picker ends without a selection, also while candidate lines
\* are still being written, the run ends successfully with no clipboard
\* command, no notification and no history mutation; it does not end with an
\* error.
C4_CancelledPickerEndsOk ==
    (pc = "done" /\ picker = "exited" /\ picker_stdout = <<>> /\ ~MissingCatalogEntry)
        => /\ outcome = "ok"
           /\ clipboard = <<>>
           /\ notifications = <<>>
           /\ HistoryUntouched


\* C5: when the picker's output is empty after trimming, the run ends
\* successfully and nothing else happens: at the point where the output is
\* examined nothing has been copied, notified or written, and the one step
\* taken from there ends the run with status ok and changes nothing else.
C5_EmptyOutputEndsRun ==
    /\ [](pc = "check_output" =>
              clipboard = <<>> /\ notifications = <<>> /\ HistoryUntouched)
    /\ [][(pc = "check_output" /\ AllWhitespace(picker_stdout))
              => /\ pc' = "done"
                 /\ outcome' = "ok"
                 /\ UNCHANGED <<history, history_file, history_writes, clipboard,
                                notifications, status_code>>]_vars

\* C5 witness: a run that ended with status ok on an output of one line end
C5_Witness ==
    /\ pc = "done"
    /\ outcome = "ok"
    /\ picker_stdout = <<LF>>
    /\ Len(picker_stdin) >= 1

C7_ThreeSectionsInOrder ==
    /\ \A a, b \in Lines :
          a < b =>
             LET x == picker_stdin[a]
                 y == picker_stdin[b]
             IN /\ SectionRank(x.section) <= SectionRank(y.section)
                /\ (x.section = "history" /\ y.section = "history") =>
                      \/ loaded_history[x.id] > loaded_history[y.id]
                      \/ /\ loaded_history[x.id] = loaded_history[y.id]
                         /\ Pos(history_iter, x.id) < Pos(history_iter, y.id)
                /\ (x.section = "png" /\ y.section = "png") =>
                      Pos(png_emojis, join(expanded_png_emojis_path, x.id))
                          < Pos(png_emojis, join(expanded_png_emojis_path, y.id))
                /\ (x.section = "catalog" /\ y.section = "catalog") =>
                      Pos(catalog_iter, x.id) < Pos(catalog_iter, y.id)
    /\ pc \in {"write_png", "write_catalog"} =>
          SectionIds("history") = DOMAIN loaded_history
    /\ EmissionComplete =>
          /\ SectionIds("history") = DOMAIN loaded_history
          /\ SectionIds("png") = {file_name(png_emojis[n]) : n \in 1..Len(png_emojis)}
          /\ SectionIds("catalog") = DOMAIN unicode_emojis \ DOMAIN loaded_history

\* C7 witness: a complete emission with two history lines of different counts
\* given in the other order by the mapping, a PNG line and a catalog line
C7_Witness ==
    /\ pc = "wait"
    /\ Len(picker_stdin) = 4
    /\ picker_stdin[1].section = "history"
    /\ picker_stdin[2].section = "history"
    /\ picker_stdin[3].section = "png"
    /\ picker_stdin[4].section = "catalog"
    /\ loaded_history[picker_stdin[1].id] > loaded_history[picker_stdin[2].id]
    /\ history_iter[1] = picker_stdin[2].id
    /\ picker_stdin[3].id # picker_stdin[4].id

\* C7, the ties: a complete emission with two history lines of equal count
C7_TieReached ==
    /\ pc = "wait"
    /\ Len(sorted_history) = 2
    /\ loaded_history[sorted_history[1]] = loaded_history[sorted_history[2]]


\* C8: a non-empty selection that ends in .png resolves to the whole line,
\* both as emoji and as identity; any other selection with a space resolves
\* to the text before its first space and the text after it; a selection
\* with neither ends the run with an invalid-data error, with no clipboard
\* command and no history mutation.
C8_Resolver ==
    (pc \in {"copy", "notify", "increment", "persist"} \/ (pc = "done" /\ output # <<>>))
        => IF ends_with(output, DotPng)
           THEN emoji = output /\ emoji_name = output
           ELSE IF HasSpace(output)
           THEN /\ emoji \o <<SP>> \o emoji_name = output
                /\ ~HasSpace(emoji)
           ELSE /\ pc = "done"
                /\ outcome = "invalid_data"
                /\ emoji = <<>>
                /\ emoji_name = <<>>
                /\ clipboard = <<>>
                /\ HistoryUntouched

\* C8 witness: a selection with two spaces, split at the first one
C8_Witness ==
    /\ pc = "copy"
    /\ output = <<"x", SP, "y", SP>> \o GRIN
    /\ emoji = <<"x">>
    /\ emoji_name = <<"y", SP>> \o GRIN

\* C8, the other two cases: a PNG selection resolved, a selection rejected
C8_PngReached == pc = "copy" /\ output = A_PNG /\ emoji_name = A_PNG
C8_RejectReached == pc = "done" /\ outcome = "invalid_data" /\ output = <<"z", "z">>

\* C9: when the history has an identity that is neither a PNG name nor a
\* catalog key, the run never gets past the history section: it ends there
\* (by the panic at that identity, unless the picker could not be started or
\* was gone before), no selection is read or resolved, nothing is copied or
\* notified, and the history and its store stay as loaded.
C9_MissingEntryIsFatal ==
    MissingCatalogEntry =>
        /\ pc \in {"load_catalog", "collect_png", "parse_args", "spawn",
                   "write_history", "done"}
        /\ pc = "done" => outcome \in {"panic", "io_error"}
        /\ (pc = "done" /\ picker = "running") =>
              /\ outcome = "panic"
              /\ LET e == sorted_history[Len(picker_stdin) + 1]
                 IN ~ends_with(e, DotPng) /\ e \notin DOMAIN unicode_emojis
        /\ \A n \in Lines : picker_stdin[n].section = "history"
        /\ output = <<>>
        /\ emoji = <<>>
        /\ emoji_name = <<>>
        /\ clipboard = <<>>
        /\ notifications = <<>>
        /\ HistoryUntouched

\* C9 witness: the run panicked at the second history identity, after the
\* line of the first was written
C9_Witness ==
    /\ MissingCatalogEntry
    /\ pc = "done"
    /\ outcome = "panic"
    /\ picker = "running"
    /\ Len(picker_stdin) = 1
    /\ Len(sorted_history) = 2

\* the catalog entries the amended C10 covers: the value is not empty and has
\* no whitespace, the key is not empty, does not end in .png and does not end
\* in whitespace
PlainEntry(key) ==
    /\ key \in DOMAIN unicode_emojis
    /\ unicode_emojis[key] # <<>>
    /\ \A n \in 1..Len(unicode_emojis[key]) : unicode_emojis[key][n] \notin Whitespace
    /\ key # <<>>
    /\ key[Len(key)] \notin Whitespace
    /\ ~ends_with(key, DotPng)

\* the picker printed the line that run_picker wrote for catalog entry key
PickedCatalogLine(key) ==
    \E n \in Lines :
        /\ picker_stdin[n].section = "catalog"
        /\ picker_stdin[n].id = key
        /\ picker_stdout = picker_stdin[n].line \o <<LF>>

\* what the round trip promises of a finished run that picked the line of
\* catalog entry key: the key is the identity counted, and a run that loads
\* the persisted history with the same catalog finds the key in the catalog,
\* ranks it in the history and filters it from the catalog section
RoundTrip(key) ==
    /\ emoji_name = key
    /\ PlusOne(history_file, loaded_history, key)
    /\ key \in DOMAIN emojis_file
    /\ \A order \in Orders(DOMAIN history_file) :
          LET ranked == sort_by_count_desc(order, history_file)
          IN /\ contains(ranked, key)
             /\ ~contains(SelectSeq(catalog_iter, LAMBDA k : ~contains(ranked, k)), key)

\* every run emits a history identity that is a catalog key in the history
\* section, with the catalog's value, and not in the catalog section
HistoryKeysLeaveCatalogSection ==
    (pc \in {"write_png", "write_catalog"} \/ EmissionComplete) =>
        \A k \in DOMAIN loaded_history \cap DOMAIN unicode_emojis :
            /\ \E n \in Lines : picker_stdin[n].section = "history" /\ picker_stdin[n].id = k
            /\ \A n \in Lines : picker_stdin[n].section = "catalog" => picker_stdin[n].id # k

\* C10 as stated: for every catalog entry, when the picker returns the line
\* emitted for it, the identity counted is the entry's key, and the next run
\* emits it in the history prefix and not in the catalog section.
C10_RoundTripAnyEntry ==
    \A key \in DOMAIN unicode_emojis :
        (pc = "done" /\ outcome = "ok" /\ PickedCatalogLine(key)) => RoundTrip(key)

\* C10 amended: the same for every catalog entry whose value has no
\* whitespace and whose key does not end in .png or in whitespace.
C10_RoundTripPlainEntry ==
    /\ \A key \in DOMAIN unicode_emojis :
          (pc = "done" /\ outcome = "ok" /\ PickedCatalogLine(key) /\ PlainEntry(key))
              => RoundTrip(key)
    /\ HistoryKeysLeaveCatalogSection

\* C10 witness: the run after one that picked "G grin" from the catalog
\* section: grin, counted once, is in the history section of this run
C10_Witness ==
    /\ pc = "done"
    /\ outcome = "ok"
    /\ PickedCatalogLine(GRIN)
    /\ PlainEntry(GRIN)
    /\ history_file[GRIN] = 1
    /\ B_PNG \in DOMAIN history_file

\* C10, the next run: it has grin with count 1 in its history section
C10_NextRunReached ==
    /\ pc = "wait"
    /\ GRIN \in DOMAIN loaded_history
    /\ loaded_history[GRIN] = 1
    /\ \E n \in Lines : picker_stdin[n].section = "history" /\ picker_stdin[n].id = GRIN

====
